---------------------------- MODULE Spec2Model ----------------------------
(***************************************************************************)
(* Waitlist registration bot (src/bot.py, src/database.py,                 *)
(* src/strings/en.py).                                                     *)
(*                                                                         *)
(*   - catch_telegram_errors: the retry wrapper around every outbound     *)
(*     platform call (WrapperSpec);                                         *)
(*   - main: the long-polling loop and the per-update dispatch, one step   *)
(*     per store access or reply (Spec: one bot process; SpecRace: two     *)
(*     bot processes sharing one database);                                 *)
(*   - normalize_username, generate_password: pure functions on character  *)
(*     sequences.                                                          *)
(*                                                                         *)
(* Texts are sequences of one-character strings, so that strip(), the      *)
(* regular expression and lower() are computed, not assumed.               *)
(***************************************************************************)
EXTENDS Integers, Sequences, FiniteSets, TLC

(***************************************************************************)
(* Bounds of the model.                                                    *)
(***************************************************************************)
\* updates the platform delivers to the single bot process of Spec
MaxUpdates == 5
\* updates the platform delivers to each of the two processes of SpecRace
MaxRaceUpdates == 2
\* updates returned by one get_updates call
MaxBatch == 2
\* readings of the wall clock (datetime.utcnow) that differ
MaxClock == 1
\* restarts of a process after main has ended
MaxRestarts == 1
\* rate-limit (RetryAfter) answers to one wrapped call
MaxFlood == 2
\* characters of the longest name handed to normalize_username on its own
MaxNameLen == 33

(***************************************************************************)
(* Characters and strings.                                                 *)
(***************************************************************************)
LowerSeq ==
    << "a","b","c","d","e","f","g","h","i","j","k","l","m",
       "n","o","p","q","r","s","t","u","v","w","x","y","z" >>

UpperSeq ==
    << "A","B","C","D","E","F","G","H","I","J","K","L","M",
       "N","O","P","Q","R","S","T","U","V","W","X","Y","Z" >>

DigitSeq == << "0","1","2","3","4","5","6","7","8","9" >>

Range(s) == { s[i] : i \in DOMAIN s }

Letters == Range(LowerSeq) \cup Range(UpperSeq)

Digits == Range(DigitSeq)

Whitespace == { " ", "\t", "\n" }

\* str.lower() on one character
LowerChar(c) ==
    IF \E i \in DOMAIN UpperSeq : UpperSeq[i] = c
    THEN LowerSeq[CHOOSE i \in DOMAIN UpperSeq : UpperSeq[i] = c]
    ELSE c

\* str.lower()
Lower(s) == [ i \in DOMAIN s |-> LowerChar(s[i]) ]

\* str.strip(): leading and trailing whitespace removed
Strip(s) ==
    LET keep == { i \in DOMAIN s : s[i] \notin Whitespace }
    IN  IF keep = {} THEN << >>
        ELSE LET lo == CHOOSE i \in keep : \A j \in keep : i <= j
                 hi == CHOOSE i \in keep : \A j \in keep : j <= i
             IN  SubSeq(s, lo, hi)

\* Python's "needle in s"
Contains(s, needle) ==
    \E i \in 0 .. Len(s) :
        /\ i + Len(needle) <= Len(s)
        /\ SubSeq(s, i + 1, i + Len(needle)) = needle

(***************************************************************************)
(* normalize_username (src/bot.py:30, 38-47).                              *)
(***************************************************************************)
\* the group ([a-zA-Z][a-zA-Z0-9_]{4,31}) matched against the whole of s
NameGroupMatches(s) ==
    /\ Len(s) >= 5
    /\ Len(s) <= 32
    /\ s[1] \in Letters
    /\ \A i \in 2 .. Len(s) : s[i] \in Letters \cup Digits \cup { "_" }

\* the pattern without the optional leading @
USERNAME_RE_NoMarker(raw) ==
    IF NameGroupMatches(raw) THEN raw ELSE << >>

\* USERNAME_RE.match(raw).group(1), or << >> when there is no match
\* (^@?(...)$ : an optional leading @, then the group up to the end)
USERNAME_RE(raw) ==
    IF NameGroupMatches(raw) THEN raw
    ELSE IF Len(raw) >= 1 /\ raw[1] = "@" /\ NameGroupMatches(Tail(raw))
         THEN Tail(raw)
         ELSE << >>

None == << "None" >>

\* normalize_username(raw): "@" + lower-cased name, or None
normalize_username(raw) ==
    LET stripped == Strip(raw)
        name == USERNAME_RE(stripped)
    IN  IF stripped = << >> THEN None
        ELSE IF name = << >> THEN None
        ELSE << "@" >> \o Lower(name)

\* normalize_username called on its own, and once more on its result
VARIABLES
    n_pc,         \* "raw" | "once" | "twice": the calls made so far
    n_raw,        \* the argument of the first call
    n_norm,       \* normalize_username(n_raw)
    n_again       \* normalize_username(n_norm)

nvars == << n_pc, n_raw, n_norm, n_again >>

(***************************************************************************)
(* The state of the store (src/database.py) and of the processes of main.  *)
(***************************************************************************)
VARIABLES
    admins,       \* table admins: the user_id column
    entries,      \* table waitlist_entries, rows in insertion order
    next_id,      \* the autoincrement counter of waitlist_entries.id
    clock,        \* the latest reading of datetime.utcnow
    pc,           \* where each process is in main
    user_states,  \* src/bot.py:150
    next_update,  \* src/bot.py:151
    updates,      \* the batch get_updates returned
    idx,          \* the position of the for loop in updates
    loc,          \* the locals of the loop body
    session,      \* store sessions the process holds open
    replies,      \* outbound calls made for the update in hand, in order
    inbox,        \* the platform's unconfirmed updates for each process
    arrived,      \* updates the platform has accepted for each process
    restarts,     \* how often each process has been started again
    handled       \* the id of the update the for loop took last in this run

bvars ==
    << admins, entries, next_id, clock, pc, user_states,
       next_update, updates, idx, loc, session, replies, inbox, arrived,
       restarts, handled >>

(***************************************************************************)
(* catch_telegram_errors (src/bot.py:56-99).                               *)
(***************************************************************************)
VARIABLES
    w_pc,         \* "idle" | "try" | "returned" | "raised"
    w_func,       \* the wrapped operation of the current call
    retry_count,  \* src/bot.py:60
    w_result,     \* what the wrapper handed to its caller
    w_last,       \* the outcome of the latest invocation of func
    w_sleeps,     \* the time.sleep(delay) calls of the current call, in order
    w_calls,      \* invocations of func in the current call
    w_floods      \* RetryAfter answers in the current call

wvars == << w_pc, w_func, retry_count, w_result, w_last, w_sleeps, w_calls, w_floods >>

\* the decorated methods of WaitlistBot (src/bot.py:108-126)
WrappedFuncs ==
    { "send_message", "get_updates", "answer_callback_query",
      "send_document", "get_me" }

max_retries == 5

base_delay == 1

\* the cap of min(..., 30)
delay_cap == 30

\* getattr(e, "retry_after", 10): 10 when the error carries no duration
default_retry_after == 10

\* The classes of telegram.error (python-telegram-bot, imported at
\* src/bot.py:18-19) and the base class of each.  BadRequest and TimedOut
\* derive from NetworkError; every class derives from TelegramError.
Bases(cls) ==
    CASE cls = "BadRequest" -> "NetworkError"
      [] cls = "TimedOut" -> "NetworkError"
      [] cls = "TelegramError" -> "Exception"
      [] OTHER -> "TelegramError"

\* isinstance(e, cls) for an error of class k
IsInstance(k, cls) ==
    \/ k = cls
    \/ Bases(k) = cls
    \/ Bases(k) # "Exception" /\ Bases(Bases(k)) = cls

\* an alternative order of the handlers: BadRequest tried before the
\* network clause
ExceptClausesBadRequestFirst ==
    << { "Unauthorized" },
       { "RetryAfter" },
       { "BadRequest" },
       { "TimedOut", "NetworkError" },
       { "TelegramError" } >>

\* the handlers without the one of RetryAfter: a rate-limited answer falls
\* to the TelegramError clause
ExceptClausesNoRetryAfter ==
    << { "Unauthorized" },
       { "TimedOut", "NetworkError" },
       { "BadRequest" },
       { "TelegramError" } >>

\* the except clauses of the wrapper, in the order Python tries them
ExceptClauses ==
    << { "Unauthorized" },
       { "RetryAfter" },
       { "TimedOut", "NetworkError" },
       { "BadRequest" },
       { "TelegramError" } >>

\* what each clause is, by the class it names first in the source
ClauseName(i) ==
    LET c == ExceptClauses[i]
    IN  CASE "Unauthorized" \in c -> "unauthorized"
          [] "RetryAfter" \in c -> "retry_after"
          [] "NetworkError" \in c -> "network"
          [] "BadRequest" \in c -> "bad_request"
          [] OTHER -> "telegram_error"

\* the first clause that catches an error of class k; "none" lets it escape
MatchingClause(k) ==
    LET hits == { i \in DOMAIN ExceptClauses :
                    \E c \in ExceptClauses[i] : IsInstance(k, c) }
    IN  IF hits = {} THEN "none"
        ELSE ClauseName(CHOOSE i \in hits : \A j \in hits : i <= j)

RECURSIVE Pow2(_)
Pow2(n) == IF n <= 0 THEN 1 ELSE 2 * Pow2(n - 1)

Min(a, b) == IF a <= b THEN a ELSE b

\* a delay that grows by base_delay with every retry
BackoffDelayLinear(rc) == Min(base_delay * rc, delay_cap)

\* delay = min(base_delay * (2 ** (retry_count - 1)), 30)
BackoffDelay(rc) == Min(base_delay * Pow2(rc - 1), delay_cap)

ChatNotFound ==
    << "c","h","a","t"," ","n","o","t"," ","f","o","u","n","d" >>

NotFound == << "n","o","t"," ","f","o","u","n","d" >>

\* "chat not found" in err or "not found" in err, err = str(e).lower()
IsNotFoundText(text) ==
    LET err == Lower(text)
    IN  Contains(err, ChatNotFound) \/ Contains(err, NotFound)

\* messages of BadRequest the platform sends
BadRequestTexts ==
    { << "C","h","a","t"," ","n","o","t"," ","f","o","u","n","d" >>,
      << "M","e","s","s","a","g","e"," ","t","o"," ","e","d","i","t"," ",
         "n","o","t"," ","f","o","u","n","d" >>,
      << "M","e","s","s","a","g","e"," ","i","s"," ","t","o","o"," ",
         "l","o","n","g" >> }

\* durations a RetryAfter carries; 0 stands for an error without the attribute
RetryAfters == { 0, 3 }

NoText == << >>

Ok == [ cls |-> "ok", text |-> NoText, retry_after |-> 0 ]

\* what one invocation of the platform call can end with, other than a result
Failures ==
    { [ cls |-> c, text |-> NoText, retry_after |-> 0 ] :
        c \in { "Unauthorized", "TimedOut", "NetworkError", "Conflict",
                "TelegramError" } }
    \cup { [ cls |-> "RetryAfter", text |-> NoText, retry_after |-> d ] :
             d \in RetryAfters }
    \cup { [ cls |-> "BadRequest", text |-> t, retry_after |-> 0 ] :
             t \in BadRequestTexts }

WInit ==
    /\ w_pc = "idle"
    /\ w_func = "none"
    /\ retry_count = 0
    /\ w_result = "none"
    /\ w_last = Ok
    /\ w_sleeps = << >>
    /\ w_calls = 0
    /\ w_floods = 0

\* wrapper(*args, **kwargs) is entered: lines 59-63
WrapperCall(f) ==
    /\ w_pc = "idle"
    /\ w_pc' = "try"
    /\ w_func' = f
    /\ retry_count' = 0
    /\ w_result' = "none"
    /\ w_last' = Ok
    /\ w_sleeps' = << >>
    /\ w_calls' = 0
    /\ w_floods' = 0
    /\ UNCHANGED << bvars, nvars >>

\* return func(*args, **kwargs): line 65
WrapperSuccess ==
    /\ w_pc = "try"
    /\ w_calls' = w_calls + 1
    /\ w_last' = Ok
    /\ w_pc' = "returned"
    /\ w_result' = "result"
    /\ UNCHANGED << w_func, retry_count, w_sleeps, w_floods >>
    /\ UNCHANGED << bvars, nvars >>

\* func raises e and the except clauses of lines 66-97 handle it
WrapperFailure(e) ==
    /\ w_pc = "try"
    /\ e.cls = "RetryAfter" => w_floods < MaxFlood
    /\ w_calls' = w_calls + 1
    /\ w_last' = e
    /\ w_func' = w_func
    /\ LET clause == MatchingClause(e.cls)
           rc == retry_count + 1
       IN  CASE clause = "unauthorized" ->
                  /\ w_pc' = "returned"
                  /\ w_result' = "None"
                  /\ UNCHANGED << retry_count, w_sleeps, w_floods >>
             [] clause = "retry_after" ->
                  /\ w_sleeps' = Append(w_sleeps,
                        IF e.retry_after = 0 THEN default_retry_after
                        ELSE e.retry_after)
                  /\ w_floods' = w_floods + 1
                  /\ w_pc' = "try"
                  /\ UNCHANGED << retry_count, w_result >>
             [] clause \in { "network", "telegram_error" } ->
                  /\ retry_count' = rc
                  /\ IF rc >= max_retries
                     THEN /\ w_pc' = "returned"
                          /\ w_result' = "None"
                          /\ UNCHANGED w_sleeps
                     ELSE /\ w_sleeps' = Append(w_sleeps, BackoffDelay(rc))
                          /\ w_pc' = "try"
                          /\ UNCHANGED w_result
                  /\ UNCHANGED w_floods
             [] clause = "bad_request" ->
                  /\ IF IsNotFoundText(e.text)
                     THEN /\ w_pc' = "returned"
                          /\ w_result' = "None"
                     ELSE /\ w_pc' = "raised"
                          /\ w_result' = "BadRequest"
                  /\ UNCHANGED << retry_count, w_sleeps, w_floods >>
             [] OTHER ->
                  /\ w_pc' = "raised"
                  /\ w_result' = e.cls
                  /\ UNCHANGED << retry_count, w_sleeps, w_floods >>
    /\ UNCHANGED << bvars, nvars >>

\* the caller has the wrapper's answer; the next call may start
WrapperReturn ==
    /\ w_pc \in { "returned", "raised" }
    /\ w_pc' = "idle"
    /\ UNCHANGED << w_func, retry_count, w_result, w_last, w_sleeps,
                    w_calls, w_floods >>
    /\ UNCHANGED << bvars, nvars >>

WNext ==
    \/ \E f \in WrappedFuncs : WrapperCall(f)
    \/ WrapperSuccess
    \/ \E e \in Failures : WrapperFailure(e)
    \/ WrapperReturn

(***************************************************************************)
(* Message texts (src/strings/en.py) and inbound updates.                  *)
(***************************************************************************)
START == << "/","s","t","a","r","t" >>

\* "#rocket" stands for the emoji the label starts with
msg_coming_soon_btn ==
    << "#rocket"," ","C","o","m","i","n","g"," ","s","o","o","n" >>

\* "#inbox" stands for the emoji the label starts with
msg_admin_download ==
    << "#inbox"," ","D","o","w","n","l","o","a","d"," ","u","s","e","r","s",
       " ",".","t","x","t"," ","f","i","l","e" >>

\* message texts users send (update.message.text; << >> is a message
\* without text); one is the download label typed with a blank before it
RawTexts ==
    { START,
      msg_coming_soon_btn,
      msg_admin_download,
      << "M","y","_","N","a","m","e","1" >>,
      << " ","@","m","y","_","n","a","m","e","1" >>,
      << "b","o","b","_","2" >>,
      << " " >> \o msg_admin_download,
      << >> }

Users == { 1, 2 }

\* the bot processes; Spec runs the first one only
Procs == { 1, 2 }

\* a private chat's id is its user's id; a group chat has an id of its own
GroupChats == { -1 }

\* next_update = None (src/bot.py:151)
NoOffset == 0

NoUser == 0

\* the for loop of line 175 has taken no update in this run
NoUpdate == 0

\* what the platform can deliver, but for the update_id
Arrivals ==
    { [ message |-> TRUE, chat_id |-> u, chat_type |-> "private",
        from_user |-> u, text |-> t ] : u \in Users, t \in RawTexts }
    \cup { [ message |-> TRUE, chat_id |-> g, chat_type |-> "group",
             from_user |-> u, text |-> t ] :
             g \in GroupChats, u \in Users, t \in { START, msg_admin_download } }
    \cup { [ message |-> FALSE, chat_id |-> NoUser, chat_type |-> "none",
             from_user |-> NoUser, text |-> NoText ] }

(***************************************************************************)
(* generate_password (src/bot.py:50-53).                                   *)
(***************************************************************************)
\* string.ascii_letters + string.digits + "!@#$%^&*"
PasswordChars ==
    Letters \cup Digits \cup { "!","@","#","$","%","^","&","*" }

\* the draws of secrets.choice the model follows: the characters of
\* SampledChars in turn
SampledChars == << "k", "7", "Q", "!" >>

\* a password one character short
generate_password_short(length) ==
    { [ i \in 1 .. length - 1 |-> SampledChars[1] ] }

\* the values generate_password(length) can return, of those the model
\* follows: one string of length characters, each of PasswordChars
generate_password(length) ==
    { [ i \in 1 .. length |-> SampledChars[((i - 1) % Len(SampledChars)) + 1] ] }

\* def generate_password(length: int = 12)
default_length == 12

(***************************************************************************)
(* The store (src/database.py) and the processes of main (src/bot.py).     *)
(***************************************************************************)
vars == << wvars, bvars, nvars >>

NoEntry == << >>

Loc0 ==
    [ chat_id |-> NoUser, from_user |-> NoUser, text |-> NoText,
      is_admin |-> FALSE, entry |-> NoEntry, admin_count |-> 0,
      reads |-> 0, opened |-> FALSE ]

NoState == "None"

\* user_states.get(chat_id)
StateOf(i, chat) == user_states[i][chat]

Chats == Users \cup GroupChats

\* session.query(Admin).filter_by(user_id=uid).first() is not None
IsAdminQuery(uid) == uid \in admins

\* session.query(WaitlistEntry).filter_by(user_id=uid).first()
EntryOfUser(uid) ==
    LET hits == { k \in DOMAIN entries : entries[k].user_id = uid }
    IN  IF hits = {} THEN NoEntry
        ELSE << entries[CHOOSE k \in hits : \A j \in hits : k <= j] >>

\* a lookup by username that finds nothing
EntryOfUsernameNever(name) == NoEntry

\* session.query(WaitlistEntry).filter(wanted_username == name).first()
EntryOfUsername(name) ==
    LET hits == { k \in DOMAIN entries : entries[k].wanted_username = name }
    IN  IF hits = {} THEN NoEntry
        ELSE << entries[CHOOSE k \in hits : \A j \in hits : k <= j] >>

\* session.query(Admin).count()
AdminCount == Cardinality(admins)

\* a unique constraint that is not enforced
UniqueUsernameUnchecked(name) == TRUE

\* Column(String(64), nullable=False, unique=True): the insert is accepted
UniqueUsernameOk(name) ==
    \A k \in DOMAIN entries : entries[k].wanted_username # name

\* Column(BigInteger, primary_key=True): the insert is accepted
AdminKeyOk(uid) == uid \notin admins

\* the results ORDER BY created_at ASC can give: every arrangement of the
\* rows with ascending created_at (SQL leaves the order of rows with equal
\* keys open)
OrderByCreatedAt ==
    { [ k \in DOMAIN entries |-> entries[p[k]] ] :
        p \in { q \in [ DOMAIN entries -> DOMAIN entries ] :
                  /\ \A a, b \in DOMAIN entries : a # b => q[a] # q[b]
                  /\ \A a, b \in DOMAIN entries :
                        a < b => entries[q[a]].created_at
                                   <= entries[q[b]].created_at } }

\* lines.append(f"{i}. {e.wanted_username} {e.password}") for each row
ExportLines(rows) ==
    [ k \in DOMAIN rows |->
        [ n |-> k, wanted_username |-> rows[k].wanted_username,
          password |-> rows[k].password ] ]

NoDoc == << >>

Message(chat, msg) ==
    [ func |-> "send_message", chat_id |-> chat, text |-> msg, doc |-> NoDoc ]

Document(chat, lines) ==
    [ func |-> "send_document", chat_id |-> chat, text |-> "msg_file_caption",
      doc |-> lines ]

(***************************************************************************)
(* main (src/bot.py:129-285): the polling loop and the dispatch.           *)
(***************************************************************************)
\* the if-chain of lines 199, 230, 235, 251 with the download rule tried
\* after the username rule
RuleUsernameFirst(text, is_admin, has_entry, state) ==
    IF text = START THEN "start"
    ELSE IF has_entry /\ text = msg_coming_soon_btn THEN "coming_soon"
    ELSE IF state = "awaiting_username" /\ text # NoText THEN "username"
    ELSE IF is_admin /\ text = msg_admin_download THEN "download"
    ELSE "none"

\* the if-chain of lines 199, 230, 235, 251 with a download rule that does
\* not ask for an admin
RuleDownloadAnyone(text, is_admin, has_entry, state) ==
    IF text = START THEN "start"
    ELSE IF has_entry /\ text = msg_coming_soon_btn THEN "coming_soon"
    ELSE IF text = msg_admin_download THEN "download"
    ELSE IF state = "awaiting_username" /\ text # NoText THEN "username"
    ELSE "none"

\* the if-chain of lines 199, 230, 235, 251: the first rule that matches
Rule(text, is_admin, has_entry, state) ==
    IF text = START THEN "start"
    ELSE IF has_entry /\ text = msg_coming_soon_btn THEN "coming_soon"
    ELSE IF is_admin /\ text = msg_admin_download THEN "download"
    ELSE IF state = "awaiting_username" /\ text # NoText THEN "username"
    ELSE "none"

RuleOf(i) ==
    Rule(loc[i].text, loc[i].is_admin, loc[i].entry # NoEntry,
         StateOf(i, loc[i].chat_id))

\* a promotion whatever the count is
NeedsPromotionAlways(count) == TRUE

\* if admin_count == 0 (line 203)
NeedsPromotion(count) == count = 0

\* a chat type test that lets group chats through
IsPrivateAny(chat_type) == TRUE

\* update.message.chat.type != "private" (line 185), negated
IsPrivate(chat_type) == chat_type = "private"

\* the reply of /start with the admin menu shown to every admin
StartReplyAdminAlways(is_admin, has_entry) ==
    IF is_admin THEN "msg_admin_menu"
    ELSE IF has_entry THEN "msg_welcome_back"
    ELSE "msg_ask_username"

\* the reply of /start without the welcome-back branch of lines 217-223
StartReplyNoWelcomeBack(is_admin, has_entry) ==
    IF is_admin /\ has_entry THEN "msg_admin_menu"
    ELSE "msg_ask_username"

\* lines 209-227: what /start answers
StartReplyOf(is_admin, has_entry) ==
    IF is_admin /\ has_entry THEN "msg_admin_menu"
    ELSE IF has_entry THEN "msg_welcome_back"
    ELSE "msg_ask_username"

Current(i) == updates[i][idx[i]]

InBatch(i) == pc[i] = "for" /\ idx[i] <= Len(updates[i])

\* the statements that reach the store, where the store can fail
AtStoreAccess(i) ==
    \/ pc[i] \in { "q_admin", "q_entry", "promote", "register" }
    \/ pc[i] = "rules" /\ RuleOf(i) \in { "start", "download" }
    \/ /\ pc[i] = "rules"
       /\ RuleOf(i) = "username"
       /\ normalize_username(loc[i].text) # None

\* the end of an update without session.close()
FinishLeak(i) ==
    /\ session' = session
    /\ idx' = [ idx EXCEPT ![i] = @ + 1 ]
    /\ pc' = [ pc EXCEPT ![i] = "for" ]
    /\ loc' = [ loc EXCEPT ![i] = Loc0 ]

\* finally: session.close(), and the for loop takes the next update
Finish(i) ==
    /\ session' = [ session EXCEPT ![i] = @ - 1 ]
    /\ idx' = [ idx EXCEPT ![i] = @ + 1 ]
    /\ pc' = [ pc EXCEPT ![i] = "for" ]
    /\ loc' = [ loc EXCEPT ![i] = Loc0 ]

\* an exception leaves the try block: finally closes the session, nothing
\* catches the exception, main ends and the memory of the process is gone
Raise(i) ==
    /\ session' = [ session EXCEPT ![i] = @ - 1 ]
    /\ pc' = [ pc EXCEPT ![i] = "crashed" ]
    /\ loc' = [ loc EXCEPT ![i] = Loc0 ]
    /\ user_states' = [ user_states EXCEPT ![i] = [ c \in Chats |-> NoState ] ]
    /\ next_update' = [ next_update EXCEPT ![i] = NoOffset ]
    /\ updates' = [ updates EXCEPT ![i] = << >> ]
    /\ idx' = [ idx EXCEPT ![i] = 1 ]
    /\ handled' = [ handled EXCEPT ![i] = NoUpdate ]

\* the platform accepts message a for process i, of at most n in all; it is
\* accepted while the process polls (one accepted later is seen by the same
\* get_updates call) and while fewer than MaxBatch updates wait
Arrive(i, a, n) ==
    /\ pc[i] = "poll"
    /\ arrived[i] < n
    /\ Len(inbox[i]) < MaxBatch
    /\ arrived' = [ arrived EXCEPT ![i] = @ + 1 ]
    /\ inbox' = [ inbox EXCEPT ![i] =
                    Append(@, [ update_id |-> arrived[i] + 1, message |-> a.message,
                                chat_id |-> a.chat_id, chat_type |-> a.chat_type,
                                from_user |-> a.from_user, text |-> a.text ]) ]
    /\ UNCHANGED << admins, entries, next_id, clock, pc,
                    user_states, next_update, updates, idx, loc, session,
                    replies >>
    /\ UNCHANGED << wvars, nvars, restarts, handled >>

\* lines 164-173: get_updates raised or returned None; sleep and poll again
GetUpdatesNone(i) ==
    /\ pc[i] = "poll"
    /\ UNCHANGED bvars
    /\ UNCHANGED << wvars, nvars >>

\* lines 165, 175: get_updates(offset=next_update) returned a list.  The
\* platform forgets the updates below the offset and returns the oldest
\* MaxBatch of the others.
GetUpdates(i) ==
    /\ pc[i] = "poll"
    /\ LET kept == IF next_update[i] = NoOffset THEN inbox[i]
                   ELSE SelectSeq(inbox[i],
                                  LAMBDA u : u.update_id >= next_update[i])
           batch == SubSeq(kept, 1, Min(Len(kept), MaxBatch))
       IN  /\ inbox' = [ inbox EXCEPT ![i] = kept ]
           /\ updates' = [ updates EXCEPT ![i] = batch ]
           /\ idx' = [ idx EXCEPT ![i] = 1 ]
           /\ pc' = [ pc EXCEPT ![i] = "for" ]
    /\ UNCHANGED << admins, entries, next_id, clock,
                    user_states, next_update, loc, session, replies, arrived >>
    /\ UNCHANGED << wvars, nvars, restarts, handled >>

\* the end of a batch with next_update = updates[-1].update_id
BatchDoneStale(i) ==
    /\ pc[i] = "for"
    /\ idx[i] > Len(updates[i])
    /\ next_update' = [ next_update EXCEPT ![i] =
                          IF updates[i] # << >>
                          THEN updates[i][Len(updates[i])].update_id
                          ELSE @ ]
    /\ updates' = [ updates EXCEPT ![i] = << >> ]
    /\ idx' = [ idx EXCEPT ![i] = 1 ]
    /\ pc' = [ pc EXCEPT ![i] = "poll" ]
    /\ UNCHANGED << admins, entries, next_id, clock,
                    user_states, loc, session, replies, inbox, arrived >>
    /\ UNCHANGED << wvars, nvars, restarts, handled >>

\* lines 284-285: the for loop is over
BatchDone(i) ==
    /\ pc[i] = "for"
    /\ idx[i] > Len(updates[i])
    /\ next_update' = [ next_update EXCEPT ![i] =
                          IF updates[i] # << >>
                          THEN updates[i][Len(updates[i])].update_id + 1
                          ELSE @ ]
    /\ updates' = [ updates EXCEPT ![i] = << >> ]
    /\ idx' = [ idx EXCEPT ![i] = 1 ]
    /\ pc' = [ pc EXCEPT ![i] = "poll" ]
    /\ UNCHANGED << admins, entries, next_id, clock,
                    user_states, loc, session, replies, inbox, arrived >>
    /\ UNCHANGED << wvars, nvars, restarts, handled >>

\* lines 176-190: an update without a message
SkipUpdate(i) ==
    /\ InBatch(i)
    /\ ~ Current(i).message
    /\ idx' = [ idx EXCEPT ![i] = @ + 1 ]
    /\ replies' = [ replies EXCEPT ![i] = << >> ]
    /\ UNCHANGED << admins, entries, next_id, clock, pc,
                    user_states, next_update, updates, loc, session, inbox,
                    arrived >>
    /\ handled' = [ handled EXCEPT ![i] = Current(i).update_id ]
    /\ UNCHANGED << wvars, nvars, restarts >>

\* lines 180-187: a message of a chat that is not private
RejectNonPrivate(i) ==
    /\ InBatch(i)
    /\ Current(i).message
    /\ ~ IsPrivate(Current(i).chat_type)
    /\ replies' = [ replies EXCEPT ![i] =
                      << Message(Current(i).chat_id, "msg_private_only") >> ]
    /\ idx' = [ idx EXCEPT ![i] = @ + 1 ]
    /\ UNCHANGED << admins, entries, next_id, clock, pc,
                    user_states, next_update, updates, loc, session, inbox,
                    arrived >>
    /\ handled' = [ handled EXCEPT ![i] = Current(i).update_id ]
    /\ UNCHANGED << wvars, nvars, restarts >>

\* lines 180-192: a private message; session = Session()
OpenSession(i) ==
    /\ InBatch(i)
    /\ Current(i).message
    /\ IsPrivate(Current(i).chat_type)
    /\ loc' = [ loc EXCEPT ![i] =
                  [ Loc0 EXCEPT !.chat_id = Current(i).chat_id,
                                !.from_user = Current(i).from_user,
                                !.text = Strip(Current(i).text),
                                !.opened = TRUE ] ]
    /\ session' = [ session EXCEPT ![i] = @ + 1 ]
    /\ replies' = [ replies EXCEPT ![i] = << >> ]
    /\ pc' = [ pc EXCEPT ![i] = "q_admin" ]
    /\ UNCHANGED << admins, entries, next_id, clock,
                    user_states, next_update, updates, idx, inbox, arrived >>
    /\ handled' = [ handled EXCEPT ![i] = Current(i).update_id ]
    /\ UNCHANGED << wvars, nvars, restarts >>

\* line 195
QueryAdmin(i) ==
    /\ pc[i] = "q_admin"
    /\ loc' = [ loc EXCEPT ![i].is_admin = IsAdminQuery(loc[i].from_user),
                           ![i].reads = @ + 1 ]
    /\ pc' = [ pc EXCEPT ![i] = "q_entry" ]
    /\ UNCHANGED << admins, entries, next_id, clock,
                    user_states, next_update, updates, idx, session, replies,
                    inbox, arrived >>
    /\ UNCHANGED << wvars, nvars, restarts, handled >>

\* line 196
QueryEntry(i) ==
    /\ pc[i] = "q_entry"
    /\ loc' = [ loc EXCEPT ![i].entry = EntryOfUser(loc[i].from_user),
                           ![i].reads = @ + 1 ]
    /\ pc' = [ pc EXCEPT ![i] = "rules" ]
    /\ UNCHANGED << admins, entries, next_id, clock,
                    user_states, next_update, updates, idx, session, replies,
                    inbox, arrived >>
    /\ UNCHANGED << wvars, nvars, restarts, handled >>

\* lines 199-203: /start clears the chat's state and counts the admins
StartCount(i) ==
    /\ pc[i] = "rules"
    /\ RuleOf(i) = "start"
    /\ user_states' = [ user_states EXCEPT ![i][loc[i].chat_id] = NoState ]
    /\ loc' = [ loc EXCEPT ![i].admin_count = AdminCount,
                           ![i].reads = @ + 1 ]
    /\ pc' = [ pc EXCEPT ![i] =
                 IF NeedsPromotion(AdminCount) THEN "promote"
                 ELSE "start_reply" ]
    /\ UNCHANGED << admins, entries, next_id, clock,
                    next_update, updates, idx, session, replies, inbox,
                    arrived >>
    /\ UNCHANGED << wvars, nvars, restarts, handled >>

\* lines 204-207: the sender becomes admin; the commit raises IntegrityError
\* when the primary key is taken
StartPromote(i) ==
    /\ pc[i] = "promote"
    /\ IF AdminKeyOk(loc[i].from_user)
       THEN /\ admins' = admins \cup { loc[i].from_user }
            /\ loc' = [ loc EXCEPT ![i].is_admin = TRUE ]
            /\ replies' = [ replies EXCEPT ![i] =
                              Append(@, Message(loc[i].chat_id, "msg_first_admin")) ]
            /\ pc' = [ pc EXCEPT ![i] = "start_reply" ]
            /\ UNCHANGED << session, idx, updates, user_states, next_update,
                            handled >>
       ELSE /\ Raise(i)
            /\ UNCHANGED << admins, replies >>
    /\ UNCHANGED << entries, next_id, clock, inbox, arrived >>
    /\ UNCHANGED << wvars, nvars, restarts >>

\* lines 209-227
StartReply(i) ==
    /\ pc[i] = "start_reply"
    /\ LET msg == StartReplyOf(loc[i].is_admin, loc[i].entry # NoEntry)
       IN  /\ replies' = [ replies EXCEPT ![i] =
                             Append(@, Message(loc[i].chat_id, msg)) ]
           /\ user_states' =
                 IF msg = "msg_ask_username"
                 THEN [ user_states EXCEPT ![i][loc[i].chat_id] =
                          "awaiting_username" ]
                 ELSE user_states
    /\ Finish(i)
    /\ UNCHANGED << admins, entries, next_id, clock,
                    next_update, updates, inbox, arrived >>
    /\ UNCHANGED << wvars, nvars, restarts, handled >>

\* lines 230-232
ComingSoon(i) ==
    /\ pc[i] = "rules"
    /\ RuleOf(i) = "coming_soon"
    /\ replies' = [ replies EXCEPT ![i] =
                      Append(@, Message(loc[i].chat_id, "msg_coming_soon_response")) ]
    /\ Finish(i)
    /\ UNCHANGED << admins, entries, next_id, clock,
                    user_states, next_update, updates, inbox, arrived >>
    /\ UNCHANGED << wvars, nvars, restarts, handled >>

\* lines 235-248
Download(i) ==
    /\ pc[i] = "rules"
    /\ RuleOf(i) = "download"
    /\ \E rows \in OrderByCreatedAt :
          replies' = [ replies EXCEPT ![i] =
                         Append(@, Document(loc[i].chat_id, ExportLines(rows))) ]
    /\ Finish(i)
    /\ UNCHANGED << admins, entries, next_id, clock,
                    user_states, next_update, updates, inbox, arrived >>
    /\ UNCHANGED << wvars, nvars, restarts, handled >>

\* lines 251-264: the text is taken as a username; invalid, taken, or free
UsernameInput(i) ==
    /\ pc[i] = "rules"
    /\ RuleOf(i) = "username"
    /\ LET username_norm == normalize_username(loc[i].text)
       IN  IF username_norm = None
           THEN /\ replies' = [ replies EXCEPT ![i] =
                      Append(@, Message(loc[i].chat_id, "msg_username_invalid")) ]
                /\ Finish(i)
           ELSE IF EntryOfUsername(username_norm) # NoEntry
           THEN /\ replies' = [ replies EXCEPT ![i] =
                      Append(@, Message(loc[i].chat_id, "msg_username_taken")) ]
                /\ Finish(i)
           ELSE /\ pc' = [ pc EXCEPT ![i] = "register" ]
                /\ loc' = [ loc EXCEPT ![i].reads = @ + 1 ]
                /\ UNCHANGED << replies, session, idx >>
    /\ UNCHANGED << admins, entries, next_id, clock,
                    user_states, next_update, updates, inbox, arrived >>
    /\ UNCHANGED << wvars, nvars, restarts, handled >>

\* lines 266-279: the entry is inserted and committed; the commit raises
\* IntegrityError when the username is stored already
Register(i) ==
    /\ pc[i] = "register"
    /\ LET username_norm == normalize_username(loc[i].text)
       IN  \E password \in generate_password(default_length),
              now \in clock .. MaxClock :
             /\ next_id' = next_id + 1
             /\ clock' = now
             /\ IF UniqueUsernameOk(username_norm)
                THEN /\ entries' = Append(entries,
                            [ id |-> next_id,
                              user_id |-> loc[i].from_user,
                              wanted_username |-> username_norm,
                              password |-> password,
                              created_at |-> now ])
                     /\ user_states' =
                           [ user_states EXCEPT ![i][loc[i].chat_id] = NoState ]
                     /\ replies' = [ replies EXCEPT ![i] =
                           Append(@, Message(loc[i].chat_id, "msg_registered")) ]
                     /\ Finish(i)
                     /\ UNCHANGED << next_update, updates, handled >>
                ELSE /\ Raise(i)
                     /\ UNCHANGED << entries, replies >>
    /\ UNCHANGED << admins, inbox, arrived >>
    /\ UNCHANGED << wvars, nvars, restarts >>

\* lines 250-282: no rule matches; the update is ignored
NoRule(i) ==
    /\ pc[i] = "rules"
    /\ RuleOf(i) = "none"
    /\ Finish(i)
    /\ UNCHANGED << admins, entries, next_id, clock,
                    user_states, next_update, updates, replies, inbox,
                    arrived >>
    /\ UNCHANGED << wvars, nvars, restarts, handled >>

\* a query or a commit raises because the storage cannot be reached; a
\* failed insert may have drawn an id
StoreUnavailable(i) ==
    /\ AtStoreAccess(i)
    /\ Raise(i)
    /\ \E drawn \in { 0, 1 } :
          /\ drawn = 1 => pc[i] = "register"
          /\ next_id' = next_id + drawn
    /\ UNCHANGED << admins, entries, clock, replies, inbox, arrived >>
    /\ UNCHANGED << wvars, nvars, restarts >>

\* the process is started again: main runs from line 129 to the loop, with
\* user_states = {} and next_update = None
Restart(i) ==
    /\ pc[i] = "crashed"
    /\ restarts[i] < MaxRestarts
    /\ restarts' = [ restarts EXCEPT ![i] = @ + 1 ]
    /\ user_states' = [ user_states EXCEPT ![i] = [ c \in Chats |-> NoState ] ]
    /\ next_update' = [ next_update EXCEPT ![i] = NoOffset ]
    /\ replies' = [ replies EXCEPT ![i] = << >> ]
    /\ pc' = [ pc EXCEPT ![i] = "poll" ]
    /\ UNCHANGED << admins, entries, next_id, clock, updates, idx, loc,
                    session, inbox, arrived, handled >>
    /\ UNCHANGED << wvars, nvars >>

\* the state after init_db on an empty database and lines 150-151
BInit ==
    /\ admins = {}
    /\ entries = << >>
    /\ next_id = 1
    /\ clock = 0
    /\ pc = [ i \in Procs |-> "poll" ]
    /\ user_states = [ i \in Procs |-> [ c \in Chats |-> NoState ] ]
    /\ next_update = [ i \in Procs |-> NoOffset ]
    /\ updates = [ i \in Procs |-> << >> ]
    /\ idx = [ i \in Procs |-> 1 ]
    /\ loc = [ i \in Procs |-> Loc0 ]
    /\ session = [ i \in Procs |-> 0 ]
    /\ replies = [ i \in Procs |-> << >> ]
    /\ inbox = [ i \in Procs |-> << >> ]
    /\ arrived = [ i \in Procs |-> 0 ]
    /\ restarts = [ i \in Procs |-> 0 ]
    /\ handled = [ i \in Procs |-> NoUpdate ]

\* the messages of the two-process runs: user i writes to process i, a
\* /start or one of two spellings of the same username
RaceArrivals(i) ==
    { a \in Arrivals :
        /\ a.chat_type = "private"
        /\ a.from_user = i
        /\ \/ a.text = START
           \/ normalize_username(a.text) = normalize_username(<< "M","y","_","N","a","m","e","1" >>) }

\* one bot process
Next ==
    \/ \E a \in Arrivals : Arrive(1, a, MaxUpdates)
    \/ GetUpdatesNone(1)
    \/ GetUpdates(1)
    \/ BatchDone(1)
    \/ SkipUpdate(1)
    \/ RejectNonPrivate(1)
    \/ OpenSession(1)
    \/ QueryAdmin(1)
    \/ QueryEntry(1)
    \/ StartCount(1)
    \/ StartPromote(1)
    \/ StartReply(1)
    \/ ComingSoon(1)
    \/ Download(1)
    \/ UsernameInput(1)
    \/ Register(1)
    \/ NoRule(1)
    \/ StoreUnavailable(1)
    \/ Restart(1)

\* normalize_username has not been called on its own
NInit ==
    /\ n_pc = "raw"
    /\ n_raw = << >>
    /\ n_norm = None
    /\ n_again = None

Init == WInit /\ BInit /\ NInit

Spec == Init /\ [][Next]_vars

\* two bot processes on one database, their steps interleaved
NextRace ==
    \E i \in Procs :
       \/ \E a \in RaceArrivals(i) : Arrive(i, a, MaxRaceUpdates)
       \/ GetUpdates(i)
       \/ BatchDone(i)
       \/ OpenSession(i)
       \/ QueryAdmin(i)
       \/ QueryEntry(i)
       \/ StartCount(i)
       \/ StartPromote(i)
       \/ StartReply(i)
       \/ UsernameInput(i)
       \/ Register(i)
       \/ NoRule(i)

SpecRace == Init /\ [][NextRace]_vars

\* the wrapper alone, called again and again
NextWrapper == WNext

WrapperSpec == Init /\ [][NextWrapper]_vars

(***************************************************************************)
(* normalize_username on its own (src/bot.py:38-47).                       *)
(***************************************************************************)
\* a name of len characters: first, then the characters of fill in turn
NameOf(first, fill, len) ==
    [ k \in 1 .. len |->
        IF k = 1 THEN first ELSE fill[((k - 2) % Len(fill)) + 1] ]

\* the arguments of the first call: whitespace, @ signs, a name of 0 to
\* MaxNameLen characters that starts with a letter, a digit or an
\* underscore and goes on with allowed characters, with a hyphen among
\* them or with a blank among them, whitespace
NormInputs ==
    { left \o marker \o NameOf(first, fill, len) \o right :
        left \in { << >>, << " ", "\t" >> },
        marker \in { << >>, << "@" >>, << "@", "@" >> },
        first \in { "a", "Z", "9", "_" },
        fill \in { << "b", "_", "7", "Q" >>,
                   << "b", "-", "7", "Q" >>,
                   << "B", "c", "d", "e", "f", " ", "g" >> },
        len \in 0 .. MaxNameLen,
        right \in { << >>, << "\n" >> } }

\* username_norm = normalize_username(text)
CallNormalize ==
    /\ n_pc = "raw"
    /\ n_norm' = normalize_username(n_raw)
    /\ n_pc' = "once"
    /\ UNCHANGED << n_raw, n_again >>
    /\ UNCHANGED << wvars, bvars >>

\* normalize_username(username_norm), for a result that is not None
CallNormalizeAgain ==
    /\ n_pc = "once"
    /\ n_norm # None
    /\ n_again' = normalize_username(n_norm)
    /\ n_pc' = "twice"
    /\ UNCHANGED << n_raw, n_norm >>
    /\ UNCHANGED << wvars, bvars >>

NextNorm ==
    \/ CallNormalize
    \/ CallNormalizeAgain

InitNorm ==
    /\ WInit
    /\ BInit
    /\ n_pc = "raw"
    /\ n_raw \in NormInputs
    /\ n_norm = None
    /\ n_again = None

NormSpec == InitNorm /\ [][NextNorm]_vars

(***************************************************************************)
(* Properties.                                                             *)
(***************************************************************************)
Last(q) == q[Len(q)]

\* C1: whatever failures the platform call produces (unauthorized,
\* rate-limited, timeout or network, bad request of any text, any other
\* platform error), a wrapped call is left only by a return, of the result
\* or of None; no error reaches the caller.
C1_NoErrorEscapes ==
    /\ w_pc # "raised"
    /\ w_pc = "returned" => w_result \in { "result", "None" }

\* C1, its case: a bad request whose text is not a "not found" one was the
\* last failure of a call that returned None
C1_Witness ==
    /\ w_pc = "returned"
    /\ w_result = "None"
    /\ w_last.cls = "BadRequest"
    /\ ~ IsNotFoundText(w_last.text)
    /\ w_func = "send_message"

\* C2: no failure raised while an update is processed ends the polling
\* loop: the process is never stopped by it.
C2_LoopSurvives == \A i \in Procs : pc[i] # "crashed"

\* C3: no two stored entries have the same wanted_username, the usernames
\* compared in their normalized form.
C3_UniqueUsernames ==
    \A a, b \in DOMAIN entries :
        a # b => normalize_username(entries[a].wanted_username)
                   # normalize_username(entries[b].wanted_username)

\* C3, its case: two registrations of one username raced; one is stored and
\* the other was refused at its commit
C3_Witness ==
    /\ Len(entries) = 1
    /\ \E i \in Procs : pc[i] = "crashed"

\* C4: at most one entry exists for any user id.
C4_OneEntryPerUser ==
    \A a, b \in DOMAIN entries :
        a # b => entries[a].user_id # entries[b].user_id

\* C4, its case: a registered user's /start was delivered again after a
\* restart (the third update is in a batch fetched without an offset) and
\* was answered without a new registration being opened
C4_Witness ==
    /\ restarts[1] = 1
    /\ next_update[1] = NoOffset
    /\ pc[1] = "for"
    /\ idx[1] > 1
    /\ idx[1] - 1 <= Len(updates[1])
    /\ updates[1][idx[1] - 1].update_id >= 3
    /\ updates[1][idx[1] - 1].text = START
    /\ \E u \in Users :
          /\ EntryOfUser(u) # NoEntry
          /\ replies[1] # << >>
          /\ Last(replies[1]).chat_id = u
          /\ Last(replies[1]).text \in { "msg_admin_menu", "msg_welcome_back" }
          /\ user_states[1][u] = NoState

\* C5: the admins table never holds more than one user; it is filled only
\* by a /start that counted zero admins, with that /start's sender; once
\* filled it never changes; and a /start that counted zero admins answers
\* with its sender as the admin.
C5_SingleAdmin ==
    [][ /\ Cardinality(admins') <= 1
        /\ admins # {} => admins' = admins
        /\ admins = {} /\ admins' # {} =>
              \E i \in Procs :
                 /\ pc[i] = "promote"
                 /\ loc[i].text = START
                 /\ loc[i].admin_count = 0
                 /\ admins' = { loc[i].from_user }
        /\ \A i \in Procs :
              pc[i] = "start_reply" /\ loc[i].admin_count = 0 =>
                 admins = { loc[i].from_user } ]_vars

\* C5, its case: with an admin in place, another user's /start was answered
\* with the username prompt, and the admin is still the only one
C5_Witness ==
    \E u, v \in Users :
       /\ u # v
       /\ admins = { u }
       /\ replies[1] = << Message(v, "msg_ask_username") >>

\* C6: a registration whose username was stored by another process after
\* its own lookup stores nothing, answers "username taken" and leaves the
\* chat in AwaitingUsername, as the lookup would have.
C6_RaceLoserToldTaken ==
    [][ \A i \in Procs :
          ( /\ pc[i] = "register"
            /\ ~ UniqueUsernameOk(normalize_username(loc[i].text))
            /\ pc'[i] # pc[i] ) =>
              /\ entries' = entries
              /\ replies'[i] =
                    Append(replies[i], Message(loc[i].chat_id, "msg_username_taken"))
              /\ user_states'[i][loc[i].chat_id] = "awaiting_username"
              /\ pc'[i] = "for" ]_vars

\* C7: an export lists every stored entry once, numbered from 1, in the
\* order the entries were inserted.
C7_ExportInInsertionOrder ==
    \A i \in Procs : \A k \in DOMAIN replies[i] :
        replies[i][k].func = "send_document" =>
            replies[i][k].doc = ExportLines(entries)

\* C8: the rules are tried in the order /start, coming soon, download,
\* username input and only the first that matches acts.  A /start clears
\* the chat's state and is not taken as a username; an admin in
\* AwaitingUsername who sends the download label gets the export and
\* nothing else, the state kept; the username steps are never reached by a
\* text an earlier rule matches.
C8_FirstRuleWins ==
    [][ \A i \in Procs :
          /\ ( /\ pc[i] = "rules"
               /\ loc[i].text = START
               /\ pc'[i] \notin { "rules", "crashed" } ) =>
                 /\ user_states'[i][loc[i].chat_id] = NoState
                 /\ pc'[i] \in { "promote", "start_reply" }
                 /\ replies'[i] = replies[i]
                 /\ entries' = entries
          /\ ( /\ pc[i] = "rules"
               /\ loc[i].from_user \in admins
               /\ loc[i].text = msg_admin_download
               /\ pc'[i] \notin { "rules", "crashed" } ) =>
                 /\ pc'[i] = "for"
                 /\ Len(replies'[i]) = Len(replies[i]) + 1
                 /\ Last(replies'[i]).func = "send_document"
                 /\ Last(replies'[i]).chat_id = loc[i].chat_id
                 /\ user_states' = user_states
                 /\ entries' = entries
          /\ ( /\ pc[i] = "rules"
               /\ EntryOfUser(loc[i].from_user) # NoEntry
               /\ loc[i].text = msg_coming_soon_btn
               /\ pc'[i] \notin { "rules", "crashed" } ) =>
                 /\ pc'[i] = "for"
                 /\ replies'[i] =
                       Append(replies[i],
                              Message(loc[i].chat_id, "msg_coming_soon_response"))
                 /\ user_states' = user_states
          /\ pc'[i] = "register" =>
                 /\ loc'[i].text # START
                 /\ ~ ( loc'[i].from_user \in admins
                        /\ loc'[i].text = msg_admin_download ) ]_vars

\* C8, its case: an admin whose chat is in AwaitingUsername sent the
\* download label and got the export, the chat still in AwaitingUsername
C8_Witness ==
    \E u \in Users :
       /\ u \in admins
       /\ user_states[1][u] = "awaiting_username"
       /\ Len(replies[1]) = 1
       /\ replies[1][1].func = "send_document"
       /\ replies[1][1].chat_id = u

\* C9: a /start is answered with the admin menu only when its sender is an
\* admin with an entry; an admin without an entry is asked for a username
\* and the chat moves to AwaitingUsername; a user with an entry who is no
\* admin is welcomed back and the chat is Idle.
C9_StartReplies ==
    [][ \A i \in Procs :
          ( pc[i] = "start_reply" /\ pc'[i] = "for" ) =>
             LET u == loc[i].from_user
                 a == u \in admins
                 e == EntryOfUser(u) # NoEntry
                 r == Last(replies'[i])
                 st == user_states'[i][loc[i].chat_id]
             IN  /\ r.func = "send_message"
                 /\ r.chat_id = loc[i].chat_id
                 /\ r.text = "msg_admin_menu" <=> (a /\ e)
                 /\ (a /\ e) => st = NoState
                 /\ ~ e => r.text = "msg_ask_username" /\ st = "awaiting_username"
                 /\ (~ a /\ e) => r.text = "msg_welcome_back" /\ st = NoState ]_vars

\* C9, its case: the user this /start promoted has no entry and was asked
\* for a username
C9_Witness ==
    \E u \in Users :
       /\ admins = { u }
       /\ replies[1] = << Message(u, "msg_first_admin"),
                          Message(u, "msg_ask_username") >>
       /\ user_states[1][u] = "awaiting_username"

\* C10: a message of a chat that is not private is answered with the
\* private-only notice and nothing else happens: no chat's state changes,
\* no session is opened, the store is neither read nor written.
C10_NonPrivateOnlyNotice ==
    [][ \A i \in Procs :
          ( /\ InBatch(i)
            /\ Current(i).message
            /\ Current(i).chat_type # "private"
            /\ << pc[i], idx[i], loc[i], replies[i], session[i] >>
                 # << pc'[i], idx'[i], loc'[i], replies'[i], session'[i] >> ) =>
              /\ replies'[i] = << Message(Current(i).chat_id, "msg_private_only") >>
              /\ user_states' = user_states
              /\ session' = session
              /\ admins' = admins
              /\ entries' = entries
              /\ loc' = loc
              /\ loc[i].reads = 0 /\ ~ loc[i].opened
              /\ pc' = pc
              /\ idx'[i] = idx[i] + 1 ]_vars

\* C10, its case: the admin sent the download label in a group chat and got
\* the notice there
C10_Witness ==
    /\ idx[1] > 1
    /\ idx[1] - 1 <= Len(updates[1])
    /\ LET u == updates[1][idx[1] - 1]
       IN  /\ u.chat_type = "group"
           /\ u.text = msg_admin_download
           /\ u.from_user \in admins
           /\ replies[1] = << Message(u.chat_id, "msg_private_only") >>
           /\ session[1] = 0
           /\ pc[1] = "for"

\* C13: a rate-limited answer makes the wrapper sleep the duration the
\* answer carries (the default when it carries none) and invoke the same
\* operation again, the retry count untouched; the wrapper gives up only on
\* an answer that is not a rate limit, and then either on an unauthorized
\* one or when five invocations other than the rate-limited ones have
\* failed; an invocation that succeeds hands its result to the caller.
C13_RateLimitFree ==
    [][ /\ ( /\ w_pc = "try"
             /\ w_calls' = w_calls + 1
             /\ w_last'.cls = "RetryAfter" ) =>
               /\ w_sleeps' =
                     Append(w_sleeps,
                            IF w_last'.retry_after = 0 THEN 10
                            ELSE w_last'.retry_after)
               /\ retry_count' = retry_count
               /\ w_func' = w_func
               /\ w_pc' = "try"
               /\ w_result' = w_result
        /\ ( /\ w_pc = "try"
             /\ w_pc' # "try"
             /\ w_result' # "result" ) =>
               /\ w_last'.cls # "RetryAfter"
               /\ \/ w_last'.cls = "Unauthorized"
                  \/ w_calls' - w_floods' >= 5
        /\ ( /\ w_pc = "try"
             /\ w_calls' = w_calls + 1
             /\ w_last' = Ok ) =>
               /\ w_pc' = "returned"
               /\ w_result' = "result" ]_vars

\* C13, its case: a call got through after two rate-limited answers, one of
\* them carrying 3, and four other failures
C13_Witness ==
    /\ w_pc = "returned"
    /\ w_result = "result"
    /\ w_floods = 2
    /\ retry_count = 4
    /\ w_calls = 7
    /\ \E k \in DOMAIN w_sleeps : w_sleeps[k] = 3 /\ k > 1 /\ k < Len(w_sleeps)

\* C14: in a call without rate-limited or unauthorized answers, every
\* failed invocation counts: at most 5 invocations are made, the n-th
\* failure is followed by a sleep of min(1 * 2^(n-1), 30) for n < 5, the 5th
\* failure by the return of None without a sleep, and the first invocation
\* that succeeds ends the call with its result.
C14_BackoffSchedule ==
    ( w_floods = 0 /\ w_last.cls # "Unauthorized" ) =>
       LET failed == IF w_last = Ok /\ w_calls > 0 THEN w_calls - 1
                     ELSE w_calls
       IN  /\ w_calls <= 5
           /\ retry_count = failed
           /\ Len(w_sleeps) = IF failed < 5 THEN failed ELSE 4
           /\ \A n \in DOMAIN w_sleeps :
                 w_sleeps[n] = IF 1 * Pow2(n - 1) <= 30 THEN 1 * Pow2(n - 1)
                               ELSE 30
           /\ failed = 5 => w_pc \in { "returned", "idle" } /\ w_result = "None"
           /\ ( w_pc \in { "returned", "idle" } /\ w_result = "None" ) =>
                 failed = 5
           /\ ( w_last = Ok /\ w_calls > 0 ) =>
                 w_pc \in { "returned", "idle" } /\ w_result = "result"
           /\ w_pc = "try" => failed < 5 /\ ( w_last # Ok \/ w_calls = 0 )

\* C14, its case: five invocations failed, with a timeout, a network error
\* or another platform error, the sleeps were 1, 2, 4, 8 and None came back
C14_Witness ==
    /\ w_pc = "returned"
    /\ w_result = "None"
    /\ w_calls = 5
    /\ w_floods = 0
    /\ w_last.cls = "Conflict"
    /\ w_sleeps = << 1, 2, 4, 8 >>

\* C15: an invocation that fails as unauthorized, or with a bad request
\* whose text says "not found", ends the call at once: None is returned, no
\* sleep is made, the retry count is untouched and nothing is raised.
C15_AbandonAtOnce ==
    [][ ( /\ w_pc = "try"
          /\ w_calls' = w_calls + 1
          /\ \/ w_last'.cls = "Unauthorized"
             \/ /\ w_last'.cls = "BadRequest"
                /\ IsNotFoundText(w_last'.text) ) =>
            /\ w_pc' = "returned"
            /\ w_result' = "None"
            /\ w_sleeps' = w_sleeps
            /\ retry_count' = retry_count ]_vars

\* C16: for every argument normalize_username accepts, normalizing the
\* result gives the result again; the result is "@" followed by the name
\* of the argument in lower case, a name of 5 to 32 characters, the first a
\* letter, the others letters, digits or underscores.
C16_Idempotent ==
    /\ n_pc = "twice" => n_again = n_norm
    /\ ( n_pc # "raw" /\ n_norm # None ) =>
          LET name == Tail(n_norm)
              lowers == Range(LowerSeq)
          IN  /\ n_norm[1] = "@"
              /\ Len(name) >= 5
              /\ Len(name) <= 32
              /\ name[1] \in lowers
              /\ \A k \in DOMAIN name : name[k] \in lowers \cup Digits \cup { "_" }
              /\ Lower(Strip(n_raw)) \in { name, << "@" >> \o name }

\* C16, its case: a name of 32 characters with capitals, written without
\* the @ and with whitespace around, was normalized twice
C16_Witness ==
    /\ n_pc = "twice"
    /\ Len(n_norm) = 33
    /\ Len(n_raw) = 35
    /\ n_raw[3] = "Z"
    /\ n_again # None

C12_Registers ==
    [][ \A i \in Procs :
          /\ ( /\ pc[i] = "rules"
               /\ StateOf(i, loc[i].chat_id) = "awaiting_username"
               /\ loc[i].text # NoText
               /\ normalize_username(loc[i].text) # None
               /\ \A k \in DOMAIN entries :
                     entries[k].wanted_username # normalize_username(loc[i].text)
               /\ pc'[i] \notin { "rules", "crashed" } ) =>
                  /\ pc'[i] = "register"
                  /\ loc'[i].text = loc[i].text
                  /\ loc'[i].from_user = loc[i].from_user
                  /\ loc'[i].chat_id = loc[i].chat_id
                  /\ replies'[i] = replies[i]
                  /\ user_states' = user_states
                  /\ entries' = entries
                  /\ admins' = admins
          /\ ( /\ pc[i] = "register"
               /\ pc'[i] \notin { "register", "crashed" } ) =>
                  /\ pc'[i] = "for"
                  /\ Len(entries') = Len(entries) + 1
                  /\ SubSeq(entries', 1, Len(entries)) = entries
                  /\ Last(entries').user_id = loc[i].from_user
                  /\ Last(entries').wanted_username
                        = normalize_username(loc[i].text)
                  /\ Len(Last(entries').password) = 12
                  /\ \A k \in 1 .. 12 :
                        Last(entries').password[k] \in PasswordChars
                  /\ user_states'[i][loc[i].chat_id] = NoState
                  /\ replies'[i] =
                        Append(replies[i],
                               Message(loc[i].chat_id, "msg_registered"))
                  /\ admins' = admins ]_vars

\* C12, its case: the text "My_Name1" was registered as "@my_name1" for its
\* sender, who is told so and whose chat is Idle
C12_Witness ==
    \E u \in Users :
       /\ pc[1] = "for"
       /\ idx[1] > 1
       /\ idx[1] - 1 <= Len(updates[1])
       /\ updates[1][idx[1] - 1].from_user = u
       /\ updates[1][idx[1] - 1].text = << "M","y","_","N","a","m","e","1" >>
       /\ EntryOfUser(u) # NoEntry
       /\ EntryOfUser(u)[1].wanted_username
             = << "@","m","y","_","n","a","m","e","1" >>
       /\ Len(EntryOfUser(u)[1].password) = 12
       /\ replies[1] = << Message(u, "msg_registered") >>
       /\ user_states[1][u] = NoState

\* C17: a process holds at most one session; it holds none while it polls,
\* while the for loop is between two updates and after main has ended on an
\* exception; and an update is taken only with no session open.
C17_SessionClosed ==
    [][ \A i \in Procs :
          /\ session'[i] \in { 0, 1 }
          /\ pc'[i] \in { "poll", "for", "crashed" } => session'[i] = 0
          /\ session'[i] = 1 => loc'[i].opened
          /\ ( handled'[i] # handled[i] /\ handled'[i] # NoUpdate ) =>
                session[i] = 0 ]_vars

\* C17, its case: the commit of an insert raised with the session open, and
\* the process ended with the session closed
C17_Witness ==
    /\ pc[1] = "crashed"
    /\ session[1] = 0
    /\ entries = << >>
    /\ next_id = 2

\* C18: within one run the for loop takes the updates one at a time, each id
\* one above the id taken before, the first being the oldest update the
\* platform holds; next_update changes only at the end of a batch that is
\* not empty, to the id of the batch's last update plus one, which is above
\* its value before; and a fetch with an offset returns no update below it.
C18_OffsetForward ==
    [][ \A i \in Procs :
          /\ ( handled'[i] # handled[i] /\ handled'[i] # NoUpdate ) =>
                /\ InBatch(i)
                /\ session[i] = 0
                /\ handled'[i] = Current(i).update_id
                /\ handled[i] # NoUpdate => handled'[i] = handled[i] + 1
                /\ handled[i] = NoUpdate =>
                      \A k \in DOMAIN inbox[i] :
                         inbox[i][k].update_id >= handled'[i]
          /\ ( /\ next_update'[i] # next_update[i]
               /\ pc[i] # "crashed"
               /\ pc'[i] # "crashed" ) =>
                /\ pc[i] = "for"
                /\ pc'[i] = "poll"
                /\ updates[i] # << >>
                /\ next_update'[i] = Last(updates[i]).update_id + 1
                /\ next_update'[i] = handled[i] + 1
                /\ next_update'[i] > next_update[i]
          /\ ( pc[i] = "for" /\ pc'[i] = "poll" /\ updates[i] # << >> ) =>
                next_update'[i] = Last(updates[i]).update_id + 1
          /\ ( pc[i] = "poll" /\ pc'[i] = "for" /\ next_update[i] # NoOffset ) =>
                \A k \in DOMAIN updates'[i] :
                   updates'[i][k].update_id >= next_update[i] ]_vars

\* C18, its case: in the first run a second batch, the updates 3 and 4, has
\* been fetched with the offset 3 and handled
C18_Witness ==
    /\ restarts[1] = 0
    /\ pc[1] = "for"
    /\ next_update[1] = 3
    /\ Len(updates[1]) = 2
    /\ idx[1] = 3
    /\ handled[1] = 4

\* C19, as stated: a document is sent only on a private message of an admin
\* whose text is the download label, character for character, and to that
\* sender's chat.
C19_AsStated ==
    [][ \A i \in Procs :
          ( /\ Len(replies'[i]) = Len(replies[i]) + 1
            /\ Last(replies'[i]).func = "send_document" ) =>
              /\ pc[i] = "rules"
              /\ Current(i).message
              /\ Current(i).chat_type = "private"
              /\ Current(i).from_user \in admins
              /\ Current(i).text = msg_admin_download
              /\ Last(replies'[i]).chat_id = Current(i).from_user ]_vars

\* C19: a document is sent only on a private message of a user who is in
\* admins at that step, whose text without the whitespace around it is the
\* download label, and to that sender's chat; every outbound call that
\* carries entries is such a document and goes to an admin; a message
\* carries one of the fixed texts and no entry.
C19_ExportOnlyToAdmin ==
    [][ \A i \in Procs :
          /\ ( /\ Len(replies'[i]) = Len(replies[i]) + 1
               /\ Last(replies'[i]).func = "send_document" ) =>
                 /\ pc[i] = "rules"
                 /\ Current(i).message
                 /\ Current(i).chat_type = "private"
                 /\ Current(i).from_user \in admins
                 /\ Strip(Current(i).text) = msg_admin_download
                 /\ Last(replies'[i]).chat_id = Current(i).from_user
                 /\ Last(replies'[i]).chat_id = Current(i).chat_id
          /\ \A k \in DOMAIN replies'[i] :
                LET r == replies'[i][k]
                IN  /\ r.doc # NoDoc =>
                          r.func = "send_document" /\ r.chat_id \in admins'
                    /\ r.func = "send_document" => r.chat_id \in admins'
                    /\ r.func = "send_message" =>
                          /\ r.doc = NoDoc
                          /\ r.text \in { "msg_private_only", "msg_first_admin",
                                          "msg_admin_menu", "msg_welcome_back",
                                          "msg_ask_username",
                                          "msg_coming_soon_response",
                                          "msg_username_invalid",
                                          "msg_username_taken",
                                          "msg_registered" } ]_vars

\* C19, its case: the admin typed the download label with a blank before it
\* and got the export, which lists an entry
C19_Witness ==
    \E u \in Users :
       /\ admins = { u }
       /\ pc[1] = "for"
       /\ idx[1] > 1
       /\ idx[1] - 1 <= Len(updates[1])
       /\ updates[1][idx[1] - 1].text = << " " >> \o msg_admin_download
       /\ updates[1][idx[1] - 1].from_user = u
       /\ Len(replies[1]) = 1
       /\ replies[1][1].func = "send_document"
       /\ replies[1][1].chat_id = u
       /\ Len(replies[1][1].doc) >= 1

\* C20: a chat in AwaitingUsername is the chat of a user without an entry;
\* a chat enters AwaitingUsername only on the reply to a /start of a sender
\* without an entry, and a step that stores an entry leaves its user's chat
\* Idle.
C20_AwaitingHasNoEntry ==
    [][ \A i \in Procs :
          /\ \A u \in Users :
                user_states'[i][u] = "awaiting_username" =>
                   \A k \in DOMAIN entries' : entries'[k].user_id # u
          /\ \A c \in Chats :
                ( /\ user_states'[i][c] = "awaiting_username"
                  /\ user_states[i][c] # "awaiting_username" ) =>
                    /\ pc[i] = "start_reply"
                    /\ loc[i].text = START
                    /\ loc[i].chat_id = c
                    /\ EntryOfUser(loc[i].from_user) = NoEntry
          /\ ( Len(entries') > Len(entries) /\ pc[i] = "register" ) =>
                user_states'[i][Last(entries').user_id] = NoState ]_vars

\* C20, its case: one user has registered and the chat is Idle, while the
\* other user, without an entry, is in AwaitingUsername
C20_Witness ==
    \E u, v \in Users :
       /\ u # v
       /\ EntryOfUser(u) # NoEntry
       /\ user_states[1][u] = NoState
       /\ EntryOfUser(v) = NoEntry
       /\ user_states[1][v] = "awaiting_username"
       /\ replies[1] = << Message(u, "msg_registered") >>

=============================================================================
